---- MODULE Spec2Model ----
(***************************************************************************)
(* notes_search: the incremental reindex synchronizer (bleveIndexer) and   *)
(* the bubbletea front end (Model.Update) that serializes asynchronous     *)
(* search results by query identifier.                                     *)
(***************************************************************************)
EXTENDS Integers, Sequences, FiniteSets, TLC

\* ------------------------------------------------------------------ bounds
NumPaths == 2
MaxTime == 2
MaxPasses == 2
MaxQueries == 3
MaxText == 2
MaxEdits == 2
MaxPlanPath == 3
MaxQueryLen == 4
MaxSize == 1
MaxName == 3
MaxEntries == 2

\* ------------------------------------------------------- program constants
\* the length below which Search answers with "match all"
MinQueryLen == 3
\* searchRequest.Size
ResultSize == 100

VARIABLES
  files,        \* the notes tree: path -> NoFile or [exists, mtime, readable]
  tzOffsetZero, \* the local time zone has offset 0 (its times format as "Z")
  snapshotFile, \* fileinfos.json: NoFile or a sequence of JSON records
  index,        \* the bleve index content: path -> NoDoc or Note
  indexOpen,    \* the index handle s.index is open
  passes,       \* the IndexNotes calls started so far, in order
  queryId,      \* Model.queryId
  textValue,    \* Model.textInput.Value()
  textStyle,    \* Model.textInput.TextStyle foreground
  list,         \* Model.list items: the hits last applied
  msgs,         \* commands and messages in flight in the bubbletea program
  editor,       \* 0, or the invocation whose editor process holds the terminal
  preview,      \* Model.preview: 0 (nil) or the path of the previewed note
  cursor,       \* the cursor of Model.list
  width,        \* Model.width
  height,       \* Model.height
  alive,        \* the process runs
  exitStatus,   \* how the process ended: "running", "quit", "fatal" or "panic"
  shownId,      \* ghost: queryId of the result last applied to the list
  dropped,      \* ghost: queryIds of the results discarded on delivery
  nClose,       \* ghost: CloseIndex calls so far
  nOpen,        \* ghost: OpenIndex calls so far
  failed,       \* ghost: a per-item operation of a pass has failed
  overlapped,   \* ghost: a pass was started while another was running
  probe         \* input and output of a pure function under test

vars == <<files, tzOffsetZero, snapshotFile, index, indexOpen, passes, queryId,
          textValue, textStyle, list, msgs, editor, preview, cursor, width, height,
          alive, exitStatus,
                 shownId, dropped, nClose, nOpen, failed, overlapped, probe>>

fsVars == <<files, tzOffsetZero>>
viewVars == <<preview, cursor, width, height>>
uiVars == <<queryId, textValue, textStyle, list, shownId, dropped, viewVars>>
editVars == <<editor, nClose, nOpen>>

EditorRunning == editor # 0

\* ------------------------------------------------------------- data model
\* an absent file, an absent document (records, compared with the present ones)
NoFile == [exists |-> FALSE]
NoDoc == [indexed |-> FALSE]
None == "none"

\* Paths are 1..n; EmptyPath is the path of the zero FileInfo{}.
EmptyPath == 0
Paths == 1..NumPaths
Times == 1..MaxTime

\* time.Time, as far as != on the struct sees it: the instant and the location
\* pointer.  os.Stat yields Local; the zero Time has a nil location (UTC).
ZeroTime == [t |-> 0, loc |-> "UTC"]

\* FileInfo{Path, ModTime}
FileInfo(p, tm) == [Path |-> p, ModTime |-> tm]

ZeroFileInfo == FileInfo(EmptyPath, ZeroTime)

\* Note{Path, Body, ModTime}: the indexed document
Note(p, body, tm) == [Path |-> p, Body |-> body, ModTime |-> tm]

\* ---------------------------------------------------------- sequence tools
SeqsUpTo(S, n) == UNION {[1..k -> S] : k \in 0..n}

RECURSIVE Concat(_)
Concat(ss) == IF ss = <<>> THEN <<>> ELSE Head(ss) \o Concat(Tail(ss))

PathsOf(fis) == {fis[i].Path : i \in 1..Len(fis)}

UniquePaths(fis) == \A i, j \in 1..Len(fis) : fis[i].Path = fis[j].Path => i = j

\* ------------------------------------------------- snapshot (de)serializing
\* json.Marshal of a time.Time: RFC 3339 with the zone of its location; an
\* offset of zero is written "Z".
MarshalTime(tm, offsetZero) ==
  [t |-> tm.t, zone |-> IF tm.loc = "UTC" \/ offsetZero THEN "Z" ELSE "offset"]

\* json.Unmarshal into a time.Time: "Z" parses to UTC, an offset equal to the
\* local zone's parses to Local.
UnmarshalTime(j) == [t |-> j.t, loc |-> IF j.zone = "Z" THEN "UTC" ELSE "Local"]

\* StoreFileInfos: the bytes written to fileinfos.json
StoreFileInfos(fis, offsetZero) ==
  [exists |-> TRUE,
   data |-> [i \in 1..Len(fis) |->
     [Path |-> fis[i].Path, ModTime |-> MarshalTime(fis[i].ModTime, offsetZero)]]]

\* readFileInfos: nil and an error when the file is missing, else the records
readFileInfos(file) ==
  IF file = NoFile
    THEN [fi |-> <<>>, err |-> "PathError"]
    ELSE [fi |-> [i \in 1..Len(file.data) |->
                    FileInfo(file.data[i].Path, UnmarshalTime(file.data[i].ModTime))],
          err |-> None]

\* ------------------------------------------------------------ the planner
\* inner loop over current for one old record f1: one copy of f1 per record of
\* current with the same path and another ModTime
ModifiedFor(f1, current) ==
  LET hits == SelectSeq(current,
                LAMBDA f2 : f1.Path = f2.Path /\ f1.ModTime # f2.ModTime)
  IN [i \in 1..Len(hits) |-> f1]

FoundIn(f, fis) == \E i \in 1..Len(fis) : fis[i].Path = f.Path

\* compareFileInfos with found set only inside the ModTime test
compareFileInfos_FoundInsideIf(old, current) ==
  [deleted  |-> SelectSeq(old, LAMBDA f1 :
                  ~\E j \in 1..Len(current) :
                     current[j].Path = f1.Path /\ current[j].ModTime # f1.ModTime),
   modified |-> Concat([i \in 1..Len(old) |-> ModifiedFor(old[i], current)]),
   created  |-> SelectSeq(current, LAMBDA f2 : ~FoundIn(f2, old))]

\* compareFileInfos(old, current)
compareFileInfos(old, current) ==
  [deleted  |-> SelectSeq(old, LAMBDA f1 : ~FoundIn(f1, current)),
   modified |-> Concat([i \in 1..Len(old) |-> ModifiedFor(old[i], current)]),
   created  |-> SelectSeq(current, LAMBDA f2 : ~FoundIn(f2, old))]

\* --------------------------------------------------- search query building
Chars == {"a", "b", " "}

RECURSIVE TrimLeft(_)
TrimLeft(s) == IF s # <<>> /\ Head(s) = " " THEN TrimLeft(Tail(s)) ELSE s

RECURSIVE TrimRight(_)
TrimRight(s) ==
  IF s # <<>> /\ s[Len(s)] = " " THEN TrimRight(SubSeq(s, 1, Len(s) - 1)) ELSE s

\* strings.Trim(qry, " ")
Trim(s) == TrimRight(TrimLeft(s))

\* the query string handed to bleve.NewQueryStringQuery
QueryString(qry) ==
  LET query == Trim(qry)
  IN IF Len(query) > 0 /\ query[Len(query)] # " " THEN query \o <<"*">> ELSE query

\* the request bleveIndexer.Search sends to the engine
SearchRequest(qry) ==
  LET query == QueryString(qry)
  IN IF Len(query) < MinQueryLen
       THEN [kind |-> "matchall", query |-> <<>>, sort |-> "-ModTime",
             highlight |-> FALSE, size |-> ResultSize]
       ELSE [kind |-> "querystring", query |-> query, sort |-> "score",
             highlight |-> TRUE, size |-> ResultSize]

\* ------------------------------------------------------------ file system
\* os.Stat(path): FileInfo{} and an error when the file is gone
getFileInfoForFile(fs, p) ==
  IF fs[p] = NoFile
    THEN [fi |-> ZeroFileInfo, err |-> "stat"]
    ELSE [fi |-> FileInfo(p, [t |-> fs[p].mtime, loc |-> "Local"]), err |-> None]

\* paths in increasing order (filepath.WalkDir walks in lexical order)
RECURSIVE SortedSeq(_)
SortedSeq(S) ==
  IF S = {} THEN <<>>
  ELSE LET m == CHOOSE x \in S : \A y \in S : x <= y
       IN <<m>> \o SortedSeq(S \ {m})

\* getListOfNotes(s.notesRoot, s.extensions): the notes found by the walk
getListOfNotes(fs) == SortedSeq({p \in Paths : fs[p] # NoFile})

\* os.ReadFile(path): the body, or nothing and an error
ReadFile(fs, p) ==
  IF p \in Paths /\ fs[p] # NoFile /\ fs[p].readable
    THEN [body |-> "body", err |-> None]
    ELSE [body |-> "", err |-> "read"]

\* ------------------------------------------------------- the search engine
\* index.Index(id, doc) on the engine: an error on a closed index or an empty id
EngineIndex(idx, open, id, doc) ==
  IF ~open \/ id = EmptyPath
    THEN [index |-> idx, err |-> "index"]
    ELSE [index |-> [idx EXCEPT ![id] = doc], err |-> None]

\* index.Delete(id) on the engine
EngineDelete(idx, open, id) ==
  IF ~open \/ id = EmptyPath
    THEN [index |-> idx, err |-> "delete"]
    ELSE [index |-> [idx EXCEPT ![id] = NoDoc], err |-> None]

IndexedPaths(idx) == {p \in Paths : idx[p] # NoDoc}

\* --------------------------------------------------------------- IndexNotes
PassIds == 1..Len(passes)

Running(i) == passes[i].pc # "done"

NewPass ==
  [pc |-> "read", err |-> None, old |-> <<>>, paths |-> <<>>, current |-> <<>>,
   ops |-> <<>>, pending |-> {}, stored |-> 0]

\* old after the error check of IndexNotes: the error of a missing file is a
\* *PathError, never fs.ErrNotExist itself, and old is nil either way
OldSnapshot(r) == IF r.err = "ErrNotExist" THEN <<>> ELSE r.fi

\* IndexNotes returning at once when the snapshot cannot be read
PassRead_AbortOnError(i) ==
  /\ alive
  /\ passes[i].pc = "read"
  /\ passes' = [passes EXCEPT ![i].old = OldSnapshot(readFileInfos(snapshotFile)),
                              ![i].err = readFileInfos(snapshotFile).err,
                              ![i].pc = IF readFileInfos(snapshotFile).err # None
                                          THEN "done" ELSE "glob"]
  /\ UNCHANGED <<fsVars, snapshotFile, index, indexOpen, uiVars, msgs,
                 editVars, alive, exitStatus, failed, overlapped, probe>>

\* old, err := readFileInfos(getFileInfosPath())
PassRead(i) ==
  /\ alive
  /\ passes[i].pc = "read"
  /\ passes' = [passes EXCEPT ![i].old = OldSnapshot(readFileInfos(snapshotFile)),
                              ![i].err = readFileInfos(snapshotFile).err,
                              ![i].pc = "glob"]
  /\ UNCHANGED <<fsVars, snapshotFile, index, indexOpen, uiVars, msgs,
                 editVars, alive, exitStatus, failed, overlapped, probe>>

\* currentPaths, _ := getListOfNotes(s.notesRoot, s.extensions)
PassGlob(i) ==
  /\ alive
  /\ passes[i].pc = "glob"
  /\ passes' = [passes EXCEPT ![i].paths = getListOfNotes(files),
                              ![i].pc = "stat"]
  /\ UNCHANGED <<fsVars, snapshotFile, index, indexOpen, uiVars, msgs,
                 editVars, alive, exitStatus, failed, overlapped, probe>>

\* current := lo.Map(currentPaths, getFileInfoForFile), errors dropped
ScanCurrent(fs, paths) ==
  [k \in 1..Len(paths) |-> getFileInfoForFile(fs, paths[k]).fi]

PassStat(i) ==
  /\ alive
  /\ passes[i].pc = "stat"
  /\ passes' = [passes EXCEPT ![i].current = ScanCurrent(files, passes[i].paths),
                              ![i].pc = "plan"]
  /\ failed' = (failed \/ \E k \in 1..Len(passes[i].paths) :
                             getFileInfoForFile(files, passes[i].paths[k]).err # None)
  /\ UNCHANGED <<fsVars, snapshotFile, index, indexOpen, uiVars, msgs,
                 editVars, alive, exitStatus, overlapped, probe>>

\* toIndex without the created records
ToIndex_ModifiedOnly(plan) == plan.modified

\* toIndex := append(modified, created...)
ToIndex(plan) == plan.modified \o plan.created

\* the goroutines of one pass: one delete per deleted, one index per toIndex
PassOps(plan) ==
  [k \in 1..Len(plan.deleted) |-> [kind |-> "delete", fi |-> plan.deleted[k]]]
  \o [k \in 1..Len(ToIndex(plan)) |-> [kind |-> "index", fi |-> ToIndex(plan)[k]]]

\* compareFileInfos, wg.Add and the two loops starting the goroutines
PassSpawn(i) ==
  /\ alive
  /\ passes[i].pc = "plan"
  /\ LET ops == PassOps(compareFileInfos(passes[i].old, passes[i].current))
     IN passes' = [passes EXCEPT ![i].ops = ops,
                                 ![i].pending = 1..Len(ops),
                                 ![i].pc = "run"]
  /\ UNCHANGED <<fsVars, snapshotFile, index, indexOpen, uiVars, msgs,
                 editVars, alive, exitStatus, failed, overlapped, probe>>

\* go func(fi) { defer wg.Done(); s.index.Delete(fi.Path) }
OpDelete(i, k) ==
  /\ alive
  /\ passes[i].pc = "run"
  /\ k \in passes[i].pending
  /\ passes[i].ops[k].kind = "delete"
  /\ LET r == EngineDelete(index, indexOpen, passes[i].ops[k].fi.Path)
     IN /\ index' = r.index
        /\ failed' = (failed \/ r.err # None)
  /\ passes' = [passes EXCEPT ![i].pending = @ \ {k}]
  /\ UNCHANGED <<fsVars, snapshotFile, indexOpen, uiVars, msgs,
                 editVars, alive, exitStatus, overlapped, probe>>

\* the document the goroutine submits: the body as read, errors dropped
IndexedNote(fi, rd) == Note(fi.Path, rd.body, fi.ModTime)

\* the indexing goroutine never reaching wg.Done() when the read fails
OpIndex_NoDoneOnError(i, k) ==
  /\ alive
  /\ passes[i].pc = "run"
  /\ k \in passes[i].pending
  /\ passes[i].ops[k].kind = "index"
  /\ ReadFile(files, passes[i].ops[k].fi.Path).err = None
  /\ LET fi == passes[i].ops[k].fi
         rd == ReadFile(files, fi.Path)
         r  == EngineIndex(index, indexOpen, fi.Path, IndexedNote(fi, rd))
     IN /\ index' = r.index
        /\ failed' = (failed \/ rd.err # None \/ r.err # None)
  /\ passes' = [passes EXCEPT ![i].pending = @ \ {k}]
  /\ UNCHANGED <<fsVars, snapshotFile, indexOpen, uiVars, msgs,
                 editVars, alive, exitStatus, overlapped, probe>>

\* go func(fi) { defer wg.Done(); body, _ := os.ReadFile(fi.Path);
\*               s.index.Index(fi.Path, Note{...}) }
OpIndex(i, k) ==
  /\ alive
  /\ passes[i].pc = "run"
  /\ k \in passes[i].pending
  /\ passes[i].ops[k].kind = "index"
  /\ LET fi == passes[i].ops[k].fi
         rd == ReadFile(files, fi.Path)
         r  == EngineIndex(index, indexOpen, fi.Path, IndexedNote(fi, rd))
     IN /\ index' = r.index
        /\ failed' = (failed \/ rd.err # None \/ r.err # None)
  /\ passes' = [passes EXCEPT ![i].pending = @ \ {k}]
  /\ UNCHANGED <<fsVars, snapshotFile, indexOpen, uiVars, msgs,
                 editVars, alive, exitStatus, overlapped, probe>>

\* no barrier: the wait returns at once
Joined_NoWait(pass) == TRUE

\* wg.Wait() has returned
Joined(pass) == pass.pending = {}

\* wg.Wait(); err = StoreFileInfos(getFileInfosPath(), current)
PassStore(i) ==
  /\ alive
  /\ passes[i].pc = "run"
  /\ Joined(passes[i])
  /\ snapshotFile' = StoreFileInfos(passes[i].current, tzOffsetZero)
  /\ passes' = [passes EXCEPT ![i].stored = @ + 1, ![i].pc = "done"]
  /\ UNCHANGED <<fsVars, index, indexOpen, uiVars, msgs,
                 editVars, alive, exitStatus, failed, overlapped, probe>>

\* ------------------------------------------------- the notes tree changing
\* a note is written (created or modified) with modification time t
WriteNote(p, t) ==
  /\ files[p] # [exists |-> TRUE, mtime |-> t, readable |-> TRUE]
  /\ files' = [files EXCEPT ![p] = [exists |-> TRUE, mtime |-> t, readable |-> TRUE]]
  /\ UNCHANGED <<tzOffsetZero, snapshotFile, index, indexOpen, passes, uiVars,
                 msgs, editVars, alive, exitStatus, failed, overlapped, probe>>

\* a note is removed
RemoveNote(p) ==
  /\ files[p] # NoFile
  /\ files' = [files EXCEPT ![p] = NoFile]
  /\ UNCHANGED <<tzOffsetZero, snapshotFile, index, indexOpen, passes, uiVars,
                 msgs, editVars, alive, exitStatus, failed, overlapped, probe>>

\* a note loses its read permission
ProtectNote(p) ==
  /\ files[p] # NoFile
  /\ files[p].readable
  /\ files' = [files EXCEPT ![p].readable = FALSE]
  /\ UNCHANGED <<tzOffsetZero, snapshotFile, index, indexOpen, passes, uiVars,
                 msgs, editVars, alive, exitStatus, failed, overlapped, probe>>

\* ------------------------------------------------------------ the front end
\* the command Init() returns: Search("") tagged 0
InitialSearch == [type |-> "search", queryId |-> 0, qry |-> <<>>]

\* case "ctrl+r": return m, func() tea.Msg { m.indexer.IndexNotes(); return nil }
KeyCtrlR ==
  /\ alive
  /\ ~EditorRunning
  /\ Len(passes) < MaxPasses
  /\ passes' = Append(passes, NewPass)
  /\ overlapped' = (overlapped \/ \E i \in PassIds : Running(i))
  /\ UNCHANGED <<fsVars, snapshotFile, index, indexOpen, uiVars, msgs,
                 editVars, alive, exitStatus, failed, probe>>

\* the engine's answer to a request: every document, latest ModTime first, for
\* "match all"; some of the documents, as the engine matches them, for a query
RECURSIVE ByModTimeDesc(_, _)
ByModTimeDesc(idx, S) ==
  IF S = {} THEN <<>>
  ELSE LET m == CHOOSE x \in S : \A y \in S :
                  \/ idx[x].ModTime.t > idx[y].ModTime.t
                  \/ idx[x].ModTime.t = idx[y].ModTime.t /\ x <= y
       IN <<m>> \o ByModTimeDesc(idx, S \ {m})

EngineSearch(idx, req) ==
  IF req.kind = "matchall"
    THEN {ByModTimeDesc(idx, IndexedPaths(idx))}
    ELSE {SortedSeq(S) : S \in SUBSET IndexedPaths(idx)}

\* the process ends (tea.Quit, log.Fatal): its memory and its goroutines are gone
Exit(status) ==
  /\ alive' = FALSE
  /\ exitStatus' = status
  /\ msgs' = {}
  /\ editor' = 0
  /\ queryId' = 0
  /\ textValue' = <<>>
  /\ textStyle' = "default"
  /\ list' = <<>>
  /\ preview' = 0
  /\ cursor' = 0
  /\ width' = 0
  /\ height' = 0
  /\ UNCHANGED <<fsVars, snapshotFile, index, indexOpen, passes, shownId,
                 dropped, nClose, nOpen, failed, overlapped, probe>>

\* the text input changing with the search issued under the old queryId
TextChanged_Reissue(newValue) ==
  /\ alive
  /\ ~EditorRunning
  /\ queryId < MaxQueries
  /\ newValue # textValue
  /\ textValue' = newValue
  /\ queryId' = queryId
  /\ msgs' = msgs \cup {[type |-> "search", queryId |-> queryId, qry |-> newValue]}
  /\ UNCHANGED <<fsVars, snapshotFile, index, indexOpen, passes, textStyle, list,
                 shownId, dropped, viewVars, editVars, alive, exitStatus,
                 failed, overlapped,
                 probe>>

\* the text input takes a key that changes its value: m.queryId++ and the
\* command that searches for the new value, tagged with the new queryId
TextChanged(newValue) ==
  /\ alive
  /\ ~EditorRunning
  /\ queryId < MaxQueries
  /\ newValue # textValue
  /\ textValue' = newValue
  /\ queryId' = queryId + 1
  /\ msgs' = msgs \cup {[type |-> "search", queryId |-> queryId + 1, qry |-> newValue]}
  /\ UNCHANGED <<fsVars, snapshotFile, index, indexOpen, passes, textStyle, list,
                 shownId, dropped, viewVars, editVars, alive, exitStatus,
                 failed, overlapped,
                 probe>>

\* the characters the user types
TypedChars == {"a"}

\* a character key
KeyRune(c) ==
  /\ Len(textValue) < MaxText
  /\ TextChanged(Append(textValue, c))

\* backspace
KeyBackspace ==
  /\ textValue # <<>>
  /\ TextChanged(SubSeq(textValue, 1, Len(textValue) - 1))

\* the search command answering a failed engine call with a failed result
SearchRun_FailedResult(c) ==
  /\ alive
  /\ c \in msgs
  /\ c.type = "search"
  /\ \E hits \in IF indexOpen THEN EngineSearch(index, SearchRequest(c.qry))
                                ELSE {<<>>} :
       msgs' = (msgs \ {c}) \cup
         {[type |-> "result", queryId |-> c.queryId,
           results |-> [Err |-> IF indexOpen THEN None ELSE "index closed",
                        Hits |-> hits]]}
  /\ UNCHANGED <<fsVars, snapshotFile, index, indexOpen, passes, uiVars,
                 editVars, alive, exitStatus, failed, overlapped, probe>>

\* the search command answering with the tag of the startup query
SearchRun_Untagged(c) ==
  /\ alive
  /\ c \in msgs
  /\ c.type = "search"
  /\ IF ~indexOpen
       THEN Exit("fatal")
       ELSE /\ \E hits \in EngineSearch(index, SearchRequest(c.qry)) :
                 msgs' = (msgs \ {c}) \cup
                   {[type |-> "result", queryId |-> 0,
                     results |-> [Err |-> None, Hits |-> hits]]}
            /\ UNCHANGED <<fsVars, snapshotFile, index, indexOpen, passes, uiVars,
                           editVars, alive, exitStatus, failed, overlapped, probe>>

\* the search command runs: results := m.indexer.Search(qry); a failing engine
\* call ends the process (log.Fatal)
SearchRun(c) ==
  /\ alive
  /\ c \in msgs
  /\ c.type = "search"
  /\ IF ~indexOpen
       THEN Exit("fatal")
       ELSE /\ \E hits \in EngineSearch(index, SearchRequest(c.qry)) :
                 msgs' = (msgs \ {c}) \cup
                   {[type |-> "result", queryId |-> c.queryId,
                     results |-> [Err |-> None, Hits |-> hits]]}
            /\ UNCHANGED <<fsVars, snapshotFile, index, indexOpen, passes, uiVars,
                           editVars, alive, exitStatus, failed, overlapped, probe>>

\* all results are applied, whatever their queryId
Stale_Never(msg) == FALSE

\* if m.queryId != msg.queryId: "Ignore this slow result"
Stale(msg) == queryId # msg.queryId

\* Update(ResultMsg) with the text style set before the queryId test
DeliverResult_StyleFirst(c) ==
  /\ alive
  /\ ~EditorRunning
  /\ c \in msgs
  /\ c.type = "result"
  /\ msgs' = msgs \ {c}
  /\ textStyle' = IF c.results.Err # None THEN "9" ELSE "255"
  /\ IF Stale(c)
       THEN /\ dropped' = dropped \cup {c.queryId}
            /\ UNCHANGED <<list, shownId>>
       ELSE /\ list' = c.results.Hits
            /\ shownId' = c.queryId
            /\ UNCHANGED dropped
  /\ UNCHANGED <<fsVars, snapshotFile, index, indexOpen, passes, queryId,
                 textValue, viewVars, editVars, alive, exitStatus,
                 failed, overlapped, probe>>

\* Update(ResultMsg)
DeliverResult(c) ==
  /\ alive
  /\ ~EditorRunning
  /\ c \in msgs
  /\ c.type = "result"
  /\ msgs' = msgs \ {c}
  /\ IF Stale(c)
       THEN /\ dropped' = dropped \cup {c.queryId}
            /\ UNCHANGED <<textStyle, list, shownId>>
       ELSE /\ textStyle' = IF c.results.Err # None THEN "9" ELSE "255"
            /\ list' = c.results.Hits
            /\ shownId' = c.queryId
            /\ UNCHANGED dropped
  /\ UNCHANGED <<fsVars, snapshotFile, index, indexOpen, passes, queryId,
                 textValue, viewVars, editVars, alive, exitStatus,
                 failed, overlapped, probe>>

\* m.list.SelectedItem() != nil
HasSelection == cursor < Len(list)

\* case "ctrl+o": with a selected note, m.indexer.CloseIndex() and the command
\* that runs the editor
KeyCtrlO ==
  /\ alive
  /\ ~EditorRunning
  /\ nClose < MaxEdits
  /\ IF HasSelection
       THEN /\ indexOpen' = FALSE
            /\ nClose' = nClose + 1
            /\ msgs' = msgs \cup {[type |-> "exec", n |-> nClose + 1]}
       ELSE UNCHANGED <<indexOpen, nClose, msgs>>
  /\ UNCHANGED <<fsVars, snapshotFile, index, passes, uiVars, editor, nOpen,
                 alive, exitStatus, failed, overlapped, probe>>

\* the program takes the exec command: it releases the terminal and runs the
\* editor, handling no message until the editor exits
ExecStart(c) ==
  /\ alive
  /\ ~EditorRunning
  /\ c \in msgs
  /\ c.type = "exec"
  /\ editor' = c.n
  /\ msgs' = msgs \ {c}
  /\ UNCHANGED <<fsVars, snapshotFile, index, indexOpen, passes, uiVars,
                 nClose, nOpen, alive, exitStatus, failed, overlapped, probe>>

\* the editor exits: EditingFinished is sent to the program
EditorExit ==
  /\ alive
  /\ EditorRunning
  /\ editor' = 0
  /\ msgs' = msgs \cup {[type |-> "finished", n |-> editor]}
  /\ UNCHANGED <<fsVars, snapshotFile, index, indexOpen, passes, uiVars,
                 nClose, nOpen, alive, exitStatus, failed, overlapped, probe>>

\* case editor.EditingFinished: m.indexer.OpenIndex()
DeliverFinished(c) ==
  /\ alive
  /\ ~EditorRunning
  /\ c \in msgs
  /\ c.type = "finished"
  /\ msgs' = msgs \ {c}
  /\ indexOpen' = TRUE
  /\ nOpen' = nOpen + 1
  /\ UNCHANGED <<fsVars, snapshotFile, index, passes, uiVars, editor, nClose,
                 alive, exitStatus, failed, overlapped, probe>>

\* case "ctrl+c": return m, tea.Quit
KeyCtrlC ==
  /\ alive
  /\ ~EditorRunning
  /\ Exit("quit")

\* case tea.WindowSizeMsg: m.updateSize(msg.Width, msg.Height)
Resize(w, h) ==
  /\ alive
  /\ ~EditorRunning
  /\ <<w, h>> # <<width, height>>
  /\ width' = w
  /\ height' = h
  /\ UNCHANGED <<fsVars, snapshotFile, index, indexOpen, passes, queryId,
                 textValue, textStyle, list, shownId, dropped, preview, cursor,
                 msgs, editVars, alive, exitStatus, failed, overlapped, probe>>

\* m.list.CursorDown(), m.list.CursorUp(): the cursor stays on the items
CursorDown(c, n) == IF c + 1 < n THEN c + 1 ELSE c

CursorUp(c) == IF c > 0 THEN c - 1 ELSE c

\* case "tab"
KeyTab ==
  /\ alive
  /\ ~EditorRunning
  /\ cursor' = CursorDown(cursor, Len(list))
  /\ UNCHANGED <<fsVars, snapshotFile, index, indexOpen, passes, queryId,
                 textValue, textStyle, list, shownId, dropped, preview, width,
                 height, msgs, editVars, alive, exitStatus,
                 failed, overlapped, probe>>

\* case "shift+tab"
KeyShiftTab ==
  /\ alive
  /\ ~EditorRunning
  /\ cursor' = CursorUp(cursor)
  /\ UNCHANGED <<fsVars, snapshotFile, index, indexOpen, passes, queryId,
                 textValue, textStyle, list, shownId, dropped, preview, width,
                 height, msgs, editVars, alive, exitStatus,
                 failed, overlapped, probe>>

\* case "enter": with a selected note, m.preview = &codeModel for its path
KeyEnter ==
  /\ alive
  /\ ~EditorRunning
  /\ preview' = IF HasSelection THEN list[cursor + 1] ELSE preview
  /\ UNCHANGED <<fsVars, snapshotFile, index, indexOpen, passes, queryId,
                 textValue, textStyle, list, shownId, dropped, cursor, width,
                 height, msgs, editVars, alive, exitStatus,
                 failed, overlapped, probe>>

\* case "esc": m.preview = nil
KeyEsc ==
  /\ alive
  /\ ~EditorRunning
  /\ preview' = 0
  /\ UNCHANGED <<fsVars, snapshotFile, index, indexOpen, passes, queryId,
                 textValue, textStyle, list, shownId, dropped, cursor, width,
                 height, msgs, editVars, alive, exitStatus,
                 failed, overlapped, probe>>

\* case "ctrl+k", "ctrl+j": m.preview.Viewport.LineUp(5) / LineDown(5); with no
\* preview this dereferences nil and the program ends
KeyScroll ==
  /\ alive
  /\ ~EditorRunning
  /\ IF preview = 0 THEN Exit("panic") ELSE UNCHANGED vars

\* ----------------------------------------------------------- specifications
FileStates == {NoFile} \cup [exists : {TRUE}, mtime : Times, readable : BOOLEAN]

NoProbe == [op |-> None]

\* a session whose Init() also starts a pass
InitSession_WithPass ==
  /\ snapshotFile = NoFile
  /\ index = [p \in Paths |-> NoDoc]
  /\ indexOpen = TRUE
  /\ passes = <<NewPass>>
  /\ queryId = 0
  /\ textValue = <<>>
  /\ textStyle = "default"
  /\ list = <<>>
  /\ msgs = {InitialSearch}
  /\ editor = 0
  /\ preview = 0
  /\ cursor = 0
  /\ width = 0
  /\ height = 0
  /\ alive = TRUE
  /\ exitStatus = "running"
  /\ shownId = -1
  /\ dropped = {}
  /\ nClose = 0
  /\ nOpen = 0
  /\ failed = FALSE
  /\ overlapped = FALSE

\* New(indexer, config) on a fresh cache directory; Init() has returned
InitSession ==
  /\ snapshotFile = NoFile
  /\ index = [p \in Paths |-> NoDoc]
  /\ indexOpen = TRUE
  /\ passes = <<>>
  /\ queryId = 0
  /\ textValue = <<>>
  /\ textStyle = "default"
  /\ list = <<>>
  /\ msgs = {InitialSearch}
  /\ editor = 0
  /\ preview = 0
  /\ cursor = 0
  /\ width = 0
  /\ height = 0
  /\ alive = TRUE
  /\ exitStatus = "running"
  /\ shownId = -1
  /\ dropped = {}
  /\ nClose = 0
  /\ nOpen = 0
  /\ failed = FALSE
  /\ overlapped = FALSE

\* the synchronizer against a changing notes tree
InitSync ==
  /\ files \in [Paths -> FileStates]
  /\ tzOffsetZero \in BOOLEAN
  /\ InitSession
  /\ probe = NoProbe

\* the user refreshes when no pass is running
RefreshIdle == (\A i \in PassIds : ~Running(i)) /\ KeyCtrlR

NextSync ==
  \/ RefreshIdle
  \/ \E i \in PassIds : PassRead(i)
  \/ \E i \in PassIds : PassGlob(i)
  \/ \E i \in PassIds : PassStat(i)
  \/ \E i \in PassIds : PassSpawn(i)
  \/ \E i \in PassIds : \E k \in 1..Len(passes[i].ops) : OpDelete(i, k)
  \/ \E i \in PassIds : \E k \in 1..Len(passes[i].ops) : OpIndex(i, k)
  \/ \E i \in PassIds : PassStore(i)
  \/ \E p \in Paths : \E t \in Times : WriteNote(p, t)
  \/ \E p \in Paths : RemoveNote(p)
  \/ \E p \in Paths : ProtectNote(p)

SpecSync == InitSync /\ [][NextSync]_vars

\* the synchronizer with refreshes handled while a pass is running: every
\* ctrl+r starts its IndexNotes call in a goroutine of its own
InitOverlap ==
  /\ files \in [Paths -> {f \in FileStates : f = NoFile \/ f.readable}]
  /\ tzOffsetZero = FALSE
  /\ InitSession
  /\ probe = NoProbe

NextOverlap ==
  \/ KeyCtrlR
  \/ \E i \in PassIds : PassRead(i)
  \/ \E i \in PassIds : PassGlob(i)
  \/ \E i \in PassIds : PassStat(i)
  \/ \E i \in PassIds : PassSpawn(i)
  \/ \E i \in PassIds : \E k \in 1..Len(passes[i].ops) : OpDelete(i, k)
  \/ \E i \in PassIds : \E k \in 1..Len(passes[i].ops) : OpIndex(i, k)
  \/ \E i \in PassIds : PassStore(i)
  \/ \E p \in Paths : \E t \in Times : WriteNote(p, t)
  \/ \E p \in Paths : RemoveNote(p)

SpecOverlap == InitOverlap /\ [][NextOverlap]_vars

\* the goroutine of IndexNotes call i and the goroutines it starts: each is a
\* finite computation the Go scheduler keeps running
PassStep(i) ==
  /\ i \in PassIds
  /\ \/ PassRead(i)
     \/ PassGlob(i)
     \/ PassStat(i)
     \/ PassSpawn(i)
     \/ \E k \in 1..Len(passes[i].ops) : OpDelete(i, k)
     \/ \E k \in 1..Len(passes[i].ops) : OpIndex(i, k)
     \/ PassStore(i)

\* the synchronizer against a tree whose notes vanish or become unreadable
NextDecay ==
  \/ RefreshIdle
  \/ \E i \in PassIds : PassRead(i)
  \/ \E i \in PassIds : PassGlob(i)
  \/ \E i \in PassIds : PassStat(i)
  \/ \E i \in PassIds : PassSpawn(i)
  \/ \E i \in PassIds : \E k \in 1..Len(passes[i].ops) : OpDelete(i, k)
  \/ \E i \in PassIds : \E k \in 1..Len(passes[i].ops) : OpIndex(i, k)
  \/ \E i \in PassIds : PassStore(i)
  \/ \E p \in Paths : RemoveNote(p)
  \/ \E p \in Paths : ProtectNote(p)

SpecSyncFair ==
  InitSync /\ [][NextDecay]_vars /\ \A i \in 1..MaxPasses : WF_vars(PassStep(i))

\* the front end over a notes tree that holds one note
InitUI ==
  /\ files = [p \in Paths |->
               IF p = 1 THEN [exists |-> TRUE, mtime |-> 1, readable |-> TRUE]
               ELSE NoFile]
  /\ tzOffsetZero = FALSE
  /\ InitSession
  /\ probe = NoProbe

NextUI ==
  \/ \E c \in TypedChars : KeyRune(c)
  \/ KeyBackspace
  \/ \E c \in msgs : SearchRun(c)
  \/ \E c \in msgs : DeliverResult(c)
  \/ RefreshIdle
  \/ \E i \in PassIds : PassRead(i)
  \/ \E i \in PassIds : PassGlob(i)
  \/ \E i \in PassIds : PassStat(i)
  \/ \E i \in PassIds : PassSpawn(i)
  \/ \E i \in PassIds : \E k \in 1..Len(passes[i].ops) : OpIndex(i, k)
  \/ \E i \in PassIds : PassStore(i)
  \/ KeyCtrlO
  \/ \E c \in msgs : ExecStart(c)
  \/ EditorExit
  \/ \E c \in msgs : DeliverFinished(c)
  \/ KeyCtrlC

Spec == InitUI /\ [][NextUI]_vars

\* the front end under the scheduling of the bubbletea program: a command is
\* run in its goroutine, its message is handled by the event loop, and an
\* editor session ends
SpecLive ==
  /\ Spec
  /\ WF_vars(\E c \in msgs : SearchRun(c))
  /\ WF_vars(\E c \in msgs : DeliverResult(c))
  /\ WF_vars(\E c \in msgs : ExecStart(c))
  /\ WF_vars(EditorExit)
  /\ WF_vars(\E c \in msgs : DeliverFinished(c))

\* the front end with every message Update handles, started on the cache an
\* earlier session left after indexing a tree of NumPaths notes
ViewFiles == [p \in Paths |-> [exists |-> TRUE, mtime |-> 1, readable |-> TRUE]]

ViewScan == ScanCurrent(ViewFiles, getListOfNotes(ViewFiles))

InitView ==
  /\ files = ViewFiles
  /\ tzOffsetZero = FALSE
  /\ snapshotFile = StoreFileInfos(ViewScan, FALSE)
  /\ index = [p \in Paths |-> IndexedNote(ViewScan[p], ReadFile(ViewFiles, p))]
  /\ indexOpen = TRUE
  /\ passes = <<>>
  /\ queryId = 0
  /\ textValue = <<>>
  /\ textStyle = "default"
  /\ list = <<>>
  /\ msgs = {InitialSearch}
  /\ editor = 0
  /\ preview = 0
  /\ cursor = 0
  /\ width = 0
  /\ height = 0
  /\ alive = TRUE
  /\ exitStatus = "running"
  /\ shownId = -1
  /\ dropped = {}
  /\ nClose = 0
  /\ nOpen = 0
  /\ failed = FALSE
  /\ overlapped = FALSE
  /\ probe = NoProbe

NextView ==
  \/ \E c \in TypedChars : KeyRune(c)
  \/ KeyBackspace
  \/ \E c \in msgs : SearchRun(c)
  \/ \E c \in msgs : DeliverResult(c)
  \/ RefreshIdle
  \/ \E i \in PassIds : PassRead(i)
  \/ \E i \in PassIds : PassGlob(i)
  \/ \E i \in PassIds : PassStat(i)
  \/ \E i \in PassIds : PassSpawn(i)
  \/ \E i \in PassIds : PassStore(i)
  \/ KeyCtrlO
  \/ \E c \in msgs : ExecStart(c)
  \/ EditorExit
  \/ \E c \in msgs : DeliverFinished(c)
  \/ KeyCtrlC
  \/ \E w, h \in 1..MaxSize : Resize(w, h)
  \/ KeyTab
  \/ KeyShiftTab
  \/ KeyEnter
  \/ KeyEsc
  \/ KeyScroll

SpecView == InitView /\ [][NextView]_vars

\* ---------------------------------------------------- the pure functions
\* the scans TreeScanner can produce over PlanPaths, in walk order: each path
\* is absent, stat'ed at some time, or listed and then failing its stat
PlanPaths == 1..MaxPlanPath

ScanEntry(p, e) ==
  IF e.kind = "absent" THEN <<>>
  ELSE IF e.kind = "statfailed" THEN <<ZeroFileInfo>>
  ELSE <<FileInfo(p, [t |-> e.t, loc |-> "Local"])>>

ScanOf(tree) == Concat([p \in PlanPaths |-> ScanEntry(p, tree[p])])

ScanEntries == [kind : {"absent", "statfailed"}] \cup [kind : {"file"}, t : Times]

Scans == {ScanOf(tree) : tree \in [PlanPaths -> ScanEntries]}

ApplyCompare ==
  /\ probe.op = "compare"
  /\ ~probe.done
  /\ probe' = [probe EXCEPT !.done = TRUE,
                            !.out = compareFileInfos(probe.old, probe.current)]
  /\ UNCHANGED <<fsVars, snapshotFile, index, indexOpen, passes, uiVars, msgs, editVars,
                 alive, exitStatus, failed, overlapped>>

ApplySearch ==
  /\ probe.op = "search"
  /\ ~probe.done
  /\ probe' = [probe EXCEPT !.done = TRUE, !.out = SearchRequest(probe.qry)]
  /\ UNCHANGED <<fsVars, snapshotFile, index, indexOpen, passes, uiVars, msgs, editVars,
                 alive, exitStatus, failed, overlapped>>

\* StoreFileInfos(path, fi) followed by readFileInfos(path)
ApplyRoundTrip ==
  /\ probe.op = "roundtrip"
  /\ ~probe.done
  /\ probe' = [probe EXCEPT
                 !.done = TRUE,
                 !.out = readFileInfos(StoreFileInfos(probe.fi, tzOffsetZero)).fi]
  /\ UNCHANGED <<fsVars, snapshotFile, index, indexOpen, passes, uiVars, msgs,
                 editVars, alive, exitStatus, failed, overlapped>>

InitPure ==
  /\ files = [p \in Paths |-> NoFile]
  /\ tzOffsetZero \in BOOLEAN
  /\ InitSession
  /\ \/ \E prev \in Scans, current \in Scans :
          probe = [op |-> "compare", done |-> FALSE, out |-> <<>>,
                   old |-> readFileInfos(StoreFileInfos(prev, tzOffsetZero)).fi,
                   current |-> current]
     \/ probe \in [op : {"search"}, done : {FALSE}, out : {<<>>},
                   qry : SeqsUpTo(Chars, MaxQueryLen)]
     \/ probe \in [op : {"roundtrip"}, done : {FALSE}, out : {<<>>}, fi : Scans]

NextPure == ApplyCompare \/ ApplySearch \/ ApplyRoundTrip

SpecPure == InitPure /\ [][NextPure]_vars

\* ------------------------------------------------------- the tree scanner
\* A file name is a sequence of tokens, "." being the dot; a path is the
\* sequence of the names of its elements.
NameTokens == {".", "md", "MD"}

Names == SeqsUpTo(NameTokens, MaxName) \ {<<>>}

\* the default of the "extensions" setting
Extensions == {<<".", "md">>}

\* the notes root, and the note a directory of the tree may hold
RootPath == <<<<"notes">>>>

NoteName == <<"md", ".", "md">>

\* filepath.Ext(path): the suffix of the last element from its last dot on,
\* empty if it has no dot
Ext(path) ==
  LET el == path[Len(path)]
      dots == {i \in 1..Len(el) : el[i] = "."}
  IN IF dots = {} THEN <<>>
     ELSE SubSeq(el, CHOOSE i \in dots : \A j \in dots : j <= i, Len(el))

\* the filter of getListOfNotes: lo.Contains(extensions, filepath.Ext(path))
HasExtension(path, extensions) == Ext(path) \in extensions

\* the calls filepath.WalkDir makes for one entry of a directory: one for a
\* file; one for a directory, followed by the calls for what it holds, or, when
\* the directory cannot be read, by a second call that reports the error
WalkEntry(dir, e) ==
  LET path == Append(dir, e.name)
  IN IF e.kind = "file" THEN <<path>>
     ELSE IF e.readable
       THEN <<path>> \o (IF e.hasNote THEN <<Append(path, NoteName)>> ELSE <<>>)
       ELSE <<path, path>>

\* the paths filepath.WalkDir(root, ...) calls its function with, in order; the
\* function glob passes always returns nil, so no entry is skipped; a root
\* that cannot be stat'ed gets the single call that reports the error
WalkDir(tree) ==
  IF ~tree.exists THEN <<RootPath>>
  ELSE <<RootPath>> \o
       Concat([k \in 1..Len(tree.entries) |-> WalkEntry(RootPath, tree.entries[k])])

\* glob(root, fn) with the fn of getListOfNotes: the paths of the walk whose
\* extension is one of extensions
glob(tree, extensions) ==
  SelectSeq(WalkDir(tree), LAMBDA path : HasExtension(path, extensions))

\* getListOfNotes(src, extensions) over a tree of files and directories
getListOfNotesIn(tree, extensions) == glob(tree, extensions)

\* the entries a directory can hold
DirEntries ==
  [name : Names, kind : {"file"}, readable : {TRUE}, hasNote : {FALSE}]
    \cup [name : Names, kind : {"dir"}, readable : BOOLEAN, hasNote : BOOLEAN]

\* the trees: a root that may be missing, holding entries of different names
Trees ==
  {t \in [exists : BOOLEAN, entries : SeqsUpTo(DirEntries, MaxEntries)] :
     /\ \A i, j \in 1..Len(t.entries) :
          t.entries[i].name = t.entries[j].name => i = j
     /\ ~t.exists => t.entries = <<>>}

ApplyScan ==
  /\ probe.op = "scan"
  /\ ~probe.done
  /\ probe' = [probe EXCEPT !.done = TRUE,
                            !.out = getListOfNotesIn(probe.tree, Extensions)]
  /\ UNCHANGED <<fsVars, snapshotFile, index, indexOpen, passes, uiVars, msgs,
                 editVars, alive, exitStatus, failed, overlapped>>

InitScan ==
  /\ files = [p \in Paths |-> NoFile]
  /\ tzOffsetZero = FALSE
  /\ InitSession
  /\ probe \in [op : {"scan"}, done : {FALSE}, out : {<<>>}, tree : Trees]

SpecScan == InitScan /\ [][ApplyScan]_vars

\* ------------------------------------------------------------------ claims
ProbeCompared == probe.op = "compare" /\ probe.done

ProbeSearched == probe.op = "search" /\ probe.done

\* paths present in old and in current under different ModTimes
ChangedPaths(old, current) ==
  {old[i].Path : i \in {i \in 1..Len(old) :
     \E j \in 1..Len(current) :
        current[j].Path = old[i].Path /\ current[j].ModTime # old[i].ModTime}}

\* C2: for snapshots with unique paths the planner's deleted, created and
\* modified path sets are old \ current, current \ old and the common paths whose
\* ModTime differs; they are pairwise disjoint, each path is emitted once, and a
\* path common to both with equal ModTime is in none of them.
C2_PlannerPartition ==
  (ProbeCompared /\ UniquePaths(probe.old) /\ UniquePaths(probe.current)) =>
    LET old == probe.old
        current == probe.current
        D == PathsOf(probe.out.deleted)
        M == PathsOf(probe.out.modified)
        C == PathsOf(probe.out.created)
    IN /\ D = PathsOf(old) \ PathsOf(current)
       /\ C = PathsOf(current) \ PathsOf(old)
       /\ M = ChangedPaths(old, current)
       /\ D \cap M = {} /\ D \cap C = {} /\ M \cap C = {}
       /\ UniquePaths(probe.out.deleted)
       /\ UniquePaths(probe.out.modified)
       /\ UniquePaths(probe.out.created)
       /\ \A i \in 1..Len(old) : \A j \in 1..Len(current) :
            old[i] = current[j] => old[i].Path \notin D \cup M \cup C

C2_Witness ==
  /\ ProbeCompared
  /\ UniquePaths(probe.old) /\ UniquePaths(probe.current)
  /\ probe.out.deleted # <<>>
  /\ probe.out.modified # <<>>
  /\ probe.out.created # <<>>

\* C3: every record of the planner's modified set carries the modification time
\* the current scan holds for its path.
C3_ModifiedCarriesCurrent ==
  ProbeCompared =>
    \A k \in 1..Len(probe.out.modified) :
      \E j \in 1..Len(probe.current) :
        /\ probe.current[j].Path = probe.out.modified[k].Path
        /\ probe.current[j].ModTime.t = probe.out.modified[k].ModTime.t

\* C7: a query of trimmed length 2 or less is sent as "match all, sorted by
\* modification time descending"; a longer one as the prefix-completed token query.
C7_ShortQueryMatchAll ==
  ProbeSearched =>
    IF Len(Trim(probe.qry)) <= 2
      THEN probe.out.kind = "matchall" /\ probe.out.sort = "-ModTime"
      ELSE probe.out.kind = "querystring" /\ probe.out.query = Trim(probe.qry) \o <<"*">>

SnapshotPaths == PathsOf(readFileInfos(snapshotFile).fi)

Idle == \A i \in PassIds : ~Running(i)

\* C4: a pass writes the snapshot at most once and never while one of its
\* operations is outstanding; a finished pass has written it exactly once, and
\* what it wrote is its whole current scan.
C4_StoreAfterJoin ==
  \A i \in PassIds :
    /\ passes[i].stored <= 1
    /\ passes[i].stored = 1 => passes[i].pending = {}
    /\ passes[i].pc = "done" <=> passes[i].stored = 1
    /\ (passes[i].pc = "done" /\ i = Len(passes)) =>
         snapshotFile = StoreFileInfos(passes[i].current, tzOffsetZero)

C4_Witness ==
  \E i \in PassIds :
    /\ passes[i].pc = "done"
    /\ \E k, l \in 1..Len(passes[i].ops) :
         passes[i].ops[k].kind = "delete" /\ passes[i].ops[l].kind = "index"

\* C5: after passes that each ran alone and met no per-item failure, the paths
\* of the stored snapshot are the paths the index holds.
C5_SnapshotMatchesIndex ==
  (Idle /\ ~failed /\ ~overlapped) => SnapshotPaths = IndexedPaths(index)

C5_Witness ==
  /\ Len(passes) = 2
  /\ Idle /\ ~failed /\ ~overlapped
  /\ IndexedPaths(index) # {}
  /\ \E k, l \in 1..Len(passes[2].ops) :
       passes[2].ops[k].kind = "delete" /\ passes[2].ops[l].kind = "index"

\* C6: no document is submitted for a file whose body could not be read, so
\* the index never holds a document with the empty body of a failed read.
C6_UnreadableSkipped ==
  \A p \in Paths : index[p] # NoDoc => index[p].Body # ""

\* C10: a pass that finds no snapshot file treats the old snapshot as empty:
\* it deletes nothing, submits every record of its scan, goes on to the end
\* and stores the scan.
C10_MissingSnapshotIndexesAll ==
  \A i \in PassIds :
    (passes[i].err # None /\ passes[i].pc \in {"run", "done"}) =>
      /\ alive
      /\ passes[i].old = <<>>
      /\ passes[i].ops =
           [k \in 1..Len(passes[i].current) |->
              [kind |-> "index", fi |-> passes[i].current[k]]]
      /\ passes[i].pc = "done" =>
           snapshotFile = StoreFileInfos(passes[i].current, tzOffsetZero)
              \/ i < Len(passes)

C10_Witness ==
  \E i \in PassIds :
    /\ passes[i].err # None
    /\ passes[i].pc = "done"
    /\ Len(passes[i].current) = NumPaths
    /\ IndexedPaths(index) = Paths

\* C1: a delivered result changes the displayed list only when its queryId is
\* the counter's value at that moment; the identifier of the displayed result
\* never decreases, so the result of a superseded query is never shown.
C1_LatestResultOnly ==
  [][(alive' /\ (list' # list \/ textStyle' # textStyle \/ shownId' # shownId)) =>
       /\ shownId' = queryId
       /\ queryId' = queryId
       /\ shownId' >= shownId]_vars

\* queries 1, 2, 3 were issued, the results of 0, 1 and 2 were discarded and
\* the result of 3 is displayed
C1_Witness ==
  /\ queryId = 3
  /\ shownId = 3
  /\ dropped = {0, 1, 2}

\* C8: CloseIndex and OpenIndex calls alternate, starting from the open handle:
\* never two closes without an open in between.
C8_CloseOpenAlternate == nOpen <= nClose /\ nClose <= nOpen + 1

Queries(ms) == {c \in ms : c.type \in {"search", "result"}}

\* the searches issued and not yet run
Searches(ms) == {c \in ms : c.type = "search"}

\* C11: the query counter starts at 0; it changes exactly in the steps that
\* change the text input's value, then by +1, and never decreases; such a step
\* issues one search, tagged with the new counter, which is greater than the
\* tag of every query issued, displayed or discarded before.
C11_CounterOnTextChange ==
  /\ queryId = 0
  /\ [][alive' =>
         /\ queryId' >= queryId
         /\ (queryId' # queryId) <=> (textValue' # textValue)
         /\ (queryId' # queryId) => queryId' = queryId + 1
         /\ (textValue' # textValue) <=> (Searches(msgs') \ Searches(msgs) # {})
         /\ \A c \in Searches(msgs') \ Searches(msgs) :
              /\ c = [type |-> "search", queryId |-> queryId', qry |-> textValue']
              /\ \A d \in Queries(msgs) : d.queryId < c.queryId
              /\ shownId < c.queryId
              /\ \A x \in dropped : x < c.queryId]_vars

\* two queries issued after a resize, a preview, a refresh pass and an editor
\* session, and a result discarded
C11_Witness ==
  /\ queryId = 2
  /\ width # 0
  /\ preview # 0
  /\ nOpen >= 1
  /\ Len(passes) >= 1
  /\ dropped # {}

\* C12: the delivery of a result whose queryId is not the counter's value
\* leaves every field of the session (list, cursor, text, style, counter,
\* preview, size, index handle, editor) as it was and issues no command: the
\* message is consumed and nothing else is in flight that was not before.
C12_StaleDeliveryFrame ==
  [][\A c \in msgs \ msgs' :
       (alive' /\ c.type = "result" /\ c.queryId # queryId) =>
         /\ UNCHANGED <<queryId, textValue, textStyle, list, viewVars, indexOpen,
                        editVars, passes, alive, exitStatus>>
         /\ msgs' = msgs \ {c}]_vars

\* a result was discarded while a list was displayed, previewed and sized
C12_Witness ==
  /\ dropped # {}
  /\ shownId > 0
  /\ list # <<>>
  /\ cursor > 0
  /\ preview # 0
  /\ height # 0
  /\ textStyle = "255"

\* a pass that has built its current snapshot
Scanned(i) == passes[i].pc \in {"plan", "run", "done"}

\* C13: the current snapshot of a pass holds no record for a path whose stat
\* failed: no record with the empty path or the zero ModTime, and no path twice.
C13_StatFailureDropped ==
  \A i \in PassIds :
    Scanned(i) =>
      /\ \A k \in 1..Len(passes[i].current) :
           /\ passes[i].current[k].Path # EmptyPath
           /\ passes[i].current[k].ModTime # ZeroTime
      /\ UniquePaths(passes[i].current)

\* C14: every pass started reaches its end, whatever its operations met; when
\* it ends no operation is outstanding and every record it planned to submit
\* has a document in the index, failed reads included.
C14_PassTerminates ==
  /\ \A i \in 1..MaxPasses :
       (Len(passes) >= i) ~> (Len(passes) >= i /\ passes[i].pc = "done")
  /\ [][\A i \in PassIds :
         (passes[i].pc = "run" /\ passes'[i].pc = "done") =>
           /\ passes[i].pending = {}
           /\ \A k \in 1..Len(passes[i].ops) :
                (passes[i].ops[k].kind = "index"
                   /\ passes[i].ops[k].fi.Path # EmptyPath) =>
                  index'[passes[i].ops[k].fi.Path] # NoDoc]_vars

\* a pass over one unreadable note and one readable note has ended: the read
\* of the first failed and the second is indexed with its body
C14_Witness ==
  /\ Len(passes) >= 1
  /\ passes[1].pc = "done"
  /\ failed
  /\ \E p, q \in Paths :
       /\ index[p] # NoDoc /\ index[p].Body = "body"
       /\ index[q] # NoDoc /\ index[q].Body = ""

\* a pass that has made its plan
Planned(i) == passes[i].pc \in {"run", "done"}

\* C15: a pass whose old snapshot is its current snapshot plans no operation,
\* and so does a pass whose scan is the scan the pass before it stored.
C15_SecondPassNoMutation ==
  \A i \in PassIds :
    Planned(i) =>
      /\ passes[i].old = passes[i].current => passes[i].ops = <<>>
      /\ (i > 1 /\ passes[i].current = passes[i - 1].current) =>
           passes[i].ops = <<>>

ProbeRoundTripped == probe.op = "roundtrip" /\ probe.done

\* C16: a snapshot stored and read back holds the same records: the same
\* paths with the same instants, and the planner finds the read snapshot and
\* the stored one equal (nothing deleted, modified or created).
C16_SnapshotRoundTrip ==
  ProbeRoundTripped =>
    /\ Len(probe.out) = Len(probe.fi)
    /\ \A k \in 1..Len(probe.fi) :
         /\ probe.out[k].Path = probe.fi[k].Path
         /\ probe.out[k].ModTime.t = probe.fi[k].ModTime.t
    /\ compareFileInfos(probe.out, probe.fi) =
         [deleted |-> <<>>, modified |-> <<>>, created |-> <<>>]

\* C17: once the input no longer changes, and unless the process has ended
\* (quit, or a search failed), the displayed result comes to be and remains the
\* result of the latest query issued; that result is never discarded.
C17_LatestResultShown ==
  /\ <>[](alive => shownId = queryId)
  /\ [](alive => queryId \notin dropped)

\* the last query's result is displayed, nothing is in flight, the results of
\* queries 1 and 2 were discarded, around an editor session and a refresh
C17_Witness ==
  /\ alive
  /\ msgs = {}
  /\ queryId = MaxQueries
  /\ shownId = queryId
  /\ dropped = {1, 2}
  /\ nOpen >= 1
  /\ Len(passes) >= 1

\* a search, a delete or a submit is executed on the index handle
EngineCall ==
  \/ \E c \in msgs : SearchRun(c)
  \/ \E i \in PassIds : \E k \in 1..Len(passes[i].ops) :
       OpDelete(i, k) \/ OpIndex(i, k)

\* C18: every search, delete and submit is executed on an open index handle.
C18_NoCallWhileClosed == [][EngineCall => indexOpen]_vars

\* C19: when passes that ran at the same time have all ended, none of them
\* having met a failure, the paths of the stored snapshot are the paths the
\* index holds.
C19_OverlapAgreement ==
  (Idle /\ overlapped /\ ~failed) => SnapshotPaths = IndexedPaths(index)

\* C20: the operations one pass issues are on pairwise different paths: no
\* path gets a delete and a submit, or two submits, or two deletes.
C20_OneOpPerPath ==
  \A i \in PassIds :
    Planned(i) =>
      \A k, l \in 1..Len(passes[i].ops) :
        passes[i].ops[k].fi.Path = passes[i].ops[l].fi.Path => k = l

ProbeScanned == probe.op = "scan" /\ probe.done

\* the files of a tree that can be reached through directories that can be read
ReachableFiles(tree) ==
  IF ~tree.exists THEN {}
  ELSE LET es == {tree.entries[k] : k \in 1..Len(tree.entries)}
       IN {Append(RootPath, e.name) : e \in {e \in es : e.kind = "file"}}
          \cup {Append(Append(RootPath, e.name), NoteName) :
                  e \in {e \in es : e.kind = "dir" /\ e.readable /\ e.hasNote}}

\* C21: the scan is made for every tree, unreadable entries included, and
\* its result holds, each once, exactly the reachable files whose extension is
\* an allowed one; no entry with another extension is in it.
C21_ScanExactlyNotes ==
  ProbeScanned =>
    /\ {probe.out[k] : k \in 1..Len(probe.out)} =
         {f \in ReachableFiles(probe.tree) : Ext(f) \in Extensions}
    /\ \A k, l \in 1..Len(probe.out) : probe.out[k] = probe.out[l] => k = l
    /\ \A k \in 1..Len(probe.out) : Ext(probe.out[k]) \in Extensions

\* C22: a search that runs while the engine refuses it (the handle is closed)
\* ends the process: the step that takes the search leaves the process dead
\* with nothing in flight; a result message only ever comes from a call the
\* engine answered, and carries no error; the fatal exit happens only in a step
\* that takes a search on the refusing engine, and after it nothing is
\* displayed or discarded.
C22_SearchFailureFatal ==
  /\ [][\A c \in msgs \ msgs' :
         (c.type = "search" /\ ~indexOpen) => (~alive' /\ msgs' = {})]_vars
  /\ [][\A r \in msgs' \ msgs :
         r.type = "result" => (indexOpen /\ r.results.Err = None)]_vars
  /\ [][(exitStatus' = "fatal" /\ exitStatus # "fatal") =>
         (~indexOpen /\ \E c \in msgs : c.type = "search")]_vars
  /\ [](exitStatus = "fatal" => (~alive /\ msgs = {}))
  /\ [][exitStatus = "fatal" => UNCHANGED <<shownId, dropped, list>>]_vars

\* the process was ended by a search run after Ctrl+O had closed the index,
\* with a later query issued and never answered
C22_Witness ==
  /\ exitStatus = "fatal"
  /\ nClose > nOpen
  /\ shownId >= 0

====
